---- MODULE Spec2Model ----
(***************************************************************************)
(* A model of the yt_weba_download_v2 acquisition pipeline:                *)
(*   - RateLimiter and YouTubeDownloader.download_video,                   *)
(*     download_channel and download_from_file                             *)
(*     (src/youtube_downloader.py),                                        *)
(*   - TurboScribeBatch.process_batch / process_single_url                 *)
(*     (src/turboscribe_batch.py),                                         *)
(*   - ParallelAudioDownloader.process_with_parallel_download              *)
(*     (src/batch_from_file_parallel.py).                                  *)
(*                                                                         *)
(* Time is counted in whole seconds.  The clock is re-based after every    *)
(* step so that time.time() always reads Now: when d seconds pass, every   *)
(* stored timestamp moves d seconds into the past (Elapse).  A timestamp   *)
(* older than the longest delay it is ever compared against (plus Margin)  *)
(* is kept at 0, which is where the constructor puts both timestamps: the  *)
(* comparison `elapsed < delay` is false for it either way, as in the      *)
(* code, whose clock reads seconds since 1970.  A sleep lasts exactly as   *)
(* long as asked; under SpecRL time also passes between calls (Tick),      *)
(* under SpecYT it passes in the sleeps only.                              *)
(***************************************************************************)
EXTENDS Naturals, Integers, Sequences, FiniteSets, TLC

VARIABLES
  \* RateLimiter (src/youtube_downloader.py:49-55)
  last_request_time,   \* self.last_request_time
  last_download_time,  \* self.last_download_time
  error_count,         \* self.error_count
  other_errors,        \* history: on_error was called without 403 since error_count was last 0
  last_call,           \* the call that has just returned, made by one thread: name, argument, locals
  \* YouTubeDownloader (src/youtube_downloader.py:120-132) and download_video
  pc,                  \* where download_video stands ("idle": not in a call)
  url,                 \* download_video's argument
  video_id,            \* video_info['id']
  exc,                 \* the exception raised in the try block
  stats,               \* self.stats
  ret,                 \* what the last download_video call returned
  media_files,         \* the ids whose {id}/{id}.m4a exists
  metadata_files,      \* the ids whose {id}/{id}.json exists
  log,                 \* history: what the current download_video call has done
  succeeded,           \* history: the ids a download_video call has fully downloaded
  \* TurboScribeBatch.process_batch and
  \* ParallelAudioDownloader.process_with_parallel_download
  mode,                \* which of the two orchestrators runs
  urls,                \* the input list (youtube_urls / urls)
  save_html,           \* process_batch's save_html
  download_audio,      \* process_batch's download_audio
  max_workers,         \* self.max_workers
  bpc,                 \* where the orchestrator's thread stands
  idx,                 \* the loop's idx
  result,              \* the record process_single_url is building
  results,             \* results
  queue,               \* the executor's work queue: submitted tasks no worker has taken
  running,             \* the tasks a worker is running (inside download_audio_task)
  finished,            \* the tasks whose future is done
  completed,           \* completed: how many futures as_completed has yielded
  clock,               \* the second time.strftime reads, counted from the start of Phase 2
  dest,                \* the destination path (filepath) of every running task
  summary,             \* the counts print_summary prints
  \* Threads that call one RateLimiter's wait_for_download, statement by statement
  tpc,                 \* where each thread stands in wait_for_download
  sleep_left,          \* how much of its time.sleep(sleep_time) each thread has left
  \* YouTubeDownloader.download_from_file and download_channel
  entry,               \* the method called from outside: "file" or "channel"
  fpc,                 \* where download_from_file / download_channel stands
  file_urls,           \* urls: the lines of the file
  fidx,                \* download_from_file's idx
  file_results,        \* download_from_file's results
  max_videos,          \* download_channel's max_videos
  entries,             \* channel_info['entries']
  videos,              \* videos: the entries, cut to max_videos
  cidx,                \* download_channel's idx
  channel_results,     \* download_channel's results, and what it returns
  work_items,          \* history: how many work items the call has come across
  \* TurboScribeBatch._download_audio called by two workers, and the disk
  disk,                \* the files of audio_downloads/: path |-> "partial" or "complete"
  apc,                 \* where each worker stands in _download_audio
  filepath,            \* each worker's filepath
  aret                 \* what each worker's last _download_audio call returned

rlvars == <<last_request_time, last_download_time, error_count, other_errors, last_call>>

ytvars == <<pc, url, video_id, exc, stats, ret, media_files, metadata_files, log, succeeded>>

bvars == <<mode, urls, save_html, download_audio, max_workers, bpc, idx, result,
           results, queue, running, finished, completed, clock, dest, summary>>

tvars == <<tpc, sleep_left>>

fvars == <<entry, fpc, file_urls, fidx, file_results, max_videos, entries, videos, cidx,
           channel_results, work_items>>

avars == <<disk, apc, filepath, aret>>

vars == <<rlvars, ytvars, bvars, tvars, fvars, avars>>

----------------------------------------------------------------------------
(* Bounds of the model *)

\* How much further back than the longest delay a timestamp is told apart.
Margin == 2

\* on_error is not called any more once error_count has reached MaxErrors.
MaxErrors == 10

\* The URLs download_video is called with, and the video ids they resolve to.
NumUrls == 3

NumIds == 2

\* download_video is called at most MaxCalls times.
MaxCalls == 3

\* The input list of the scrape pipeline holds at most MaxUrls URLs.
MaxUrls == 3

\* The file download_from_file reads holds at most MaxFileUrls URLs.
MaxFileUrls == 2

\* A channel lists at most MaxEntries entries.
MaxEntries == 2

\* max_workers is between 1 and MaxWorkers.
MaxWorkers == 2

\* Phase 2 lasts at most MaxSeconds seconds of the clock time.strftime reads.
MaxSeconds == 1

\* The threads that call one RateLimiter at the same time.
NumThreads == 2

----------------------------------------------------------------------------
(* RateLimiter: constants *)

\* Python's None (an absent error code, an absent video id).
None == 0

min_delay == 3
max_delay == 5
download_delay_min == 5
download_delay_max == 10

\* min(2 ** self.error_count, 60): the cap.
MaxBackoff == 60

\* wait_times = [30, 60, 120]
wait_times == <<30, 60, 120>>

\* The status codes on_error is called with: none, 403, and another one.
ErrorCodes == {None, 403, 500}

Min(a, b) == IF a < b THEN a ELSE b

\* random.uniform(a, b), in whole seconds.
Uniform(a, b) == a..b

\* All lists of at most n elements of S.
ListsUpTo(S, n) == UNION {[1..k -> S] : k \in 0..n}

----------------------------------------------------------------------------
(* RateLimiter: the clock *)

\* The longest delays wait_for_request and wait_for_download compute.
RequestHorizon == max_delay + MaxBackoff + Margin

DownloadHorizon == download_delay_max + Margin

\* time.time(): the reading of the clock.
Now == RequestHorizon + DownloadHorizon

\* Timestamp t after d more seconds have passed; horizon is how far back the
\* timestamp is told apart.
Elapse(t, d, horizon) == IF t - d > Now - horizon THEN t - d ELSE 0

\* The record of a RateLimiter call.
Call(op, code, delay, backoff, slept) ==
  [op |-> op, code |-> code, delay |-> delay, backoff |-> backoff, slept |-> slept]

NoCall == Call("none", None, 0, 0, 0)

----------------------------------------------------------------------------
(* RateLimiter: the methods *)

\* The backoff wait_for_request adds to its delay.
BackoffUncapped(errors) == IF errors > 0 THEN 2 ^ errors ELSE 0

Backoff(errors) == IF errors > 0 THEN Min(2 ^ errors, MaxBackoff) ELSE 0

\* The time a wait sleeps, given its delay and the time elapsed.
SleepTimeNoElapsed(delay, elapsed) == delay

SleepTime(delay, elapsed) == IF elapsed < delay THEN delay - elapsed ELSE 0

\* wait_for_request, its random.uniform draw being jitter.
wait_for_request(jitter) ==
  LET backoff == Backoff(error_count)
      delay == jitter + backoff
      elapsed == Now - last_request_time
      sleep_time == SleepTime(delay, elapsed)
  IN /\ last_request_time' = Now
     /\ last_download_time' = Elapse(last_download_time, sleep_time, DownloadHorizon)
     /\ last_call' = Call("wait_for_request", None, delay, backoff, sleep_time)
     /\ UNCHANGED <<error_count, other_errors>>

\* The delay wait_for_download computes: the draw alone.
DownloadDelayWithBackoff(jitter, errors) == jitter + Backoff(errors)

DownloadDelay(jitter, errors) == jitter

\* wait_for_download, its random.uniform draw being jitter.
wait_for_download(jitter) ==
  LET delay == DownloadDelay(jitter, error_count)
      elapsed == Now - last_download_time
      sleep_time == SleepTime(delay, elapsed)
  IN /\ last_download_time' = Now
     /\ last_request_time' = Elapse(last_request_time, sleep_time, RequestHorizon)
     /\ last_call' = Call("wait_for_download", None, delay, 0, sleep_time)
     /\ UNCHANGED <<error_count, other_errors>>

\* The time on_error sleeps, error_count being already incremented.
WaitTimeUnsaturated(errors, error_code) ==
  IF error_code = 403 THEN 30 * (2 ^ (errors - 1)) ELSE 0

WaitTimeFirstRung(errors, error_code) ==
  IF error_code = 403 THEN wait_times[1] ELSE 0

WaitTimeAnyCode(errors, error_code) ==
  wait_times[Min(errors - 1, Len(wait_times) - 1) + 1]

WaitTime(errors, error_code) ==
  IF error_code = 403
    THEN wait_times[Min(errors - 1, Len(wait_times) - 1) + 1]
    ELSE 0

\* The count on_error leaves.
ErrorCountAfterError(errors) == errors + 1

\* The count on_success leaves.
ErrorCountDecremented(errors) == IF errors > 0 THEN errors - 1 ELSE 0

ErrorCountAfterSuccess(errors) == 0

on_error(error_code) ==
  LET errors == ErrorCountAfterError(error_count)
      wait_time == WaitTime(errors, error_code)
  IN /\ error_count' = errors
     /\ other_errors' = (other_errors \/ error_code # 403)
     /\ last_request_time' = Elapse(last_request_time, wait_time, RequestHorizon)
     /\ last_download_time' = Elapse(last_download_time, wait_time, DownloadHorizon)
     /\ last_call' = Call("on_error", error_code, 0, 0, wait_time)

on_success ==
  /\ error_count' = ErrorCountAfterSuccess(error_count)
  /\ other_errors' = FALSE
  /\ last_call' = Call("on_success", None, 0, 0, 0)
  /\ UNCHANGED <<last_request_time, last_download_time>>

RLInit ==
  /\ last_request_time = 0
  /\ last_download_time = 0
  /\ error_count = 0
  /\ other_errors = FALSE
  /\ last_call = NoCall

----------------------------------------------------------------------------
(* The RateLimiter called directly, in any order, time passing in between *)

\* One second passes between two calls (and the call before is forgotten).
Tick ==
  /\ last_request_time > 0 \/ last_download_time > 0
  /\ last_request_time' = Elapse(last_request_time, 1, RequestHorizon)
  /\ last_download_time' = Elapse(last_download_time, 1, DownloadHorizon)
  /\ last_call' = NoCall
  /\ UNCHANGED <<error_count, other_errors, ytvars, bvars, tvars, fvars, avars>>

RLWaitForRequest ==
  /\ \E jitter \in Uniform(min_delay, max_delay) : wait_for_request(jitter)
  /\ UNCHANGED <<ytvars, bvars, tvars, fvars, avars>>

RLWaitForDownload ==
  /\ \E jitter \in Uniform(download_delay_min, download_delay_max) : wait_for_download(jitter)
  /\ UNCHANGED <<ytvars, bvars, tvars, fvars, avars>>

RLOnError ==
  /\ error_count < MaxErrors
  /\ \E error_code \in ErrorCodes : on_error(error_code)
  /\ UNCHANGED <<ytvars, bvars, tvars, fvars, avars>>

RLOnSuccess ==
  /\ on_success
  /\ UNCHANGED <<ytvars, bvars, tvars, fvars, avars>>

NextRL ==
  \/ Tick
  \/ RLWaitForRequest
  \/ RLWaitForDownload
  \/ RLOnError
  \/ RLOnSuccess

----------------------------------------------------------------------------
(* One RateLimiter called by several threads.  The class holds no lock, so  *)
(* the statements of wait_for_download (lines 77-85) run one by one, the    *)
(* statements of other threads in between; time passes for all threads.     *)

Threads == 1..NumThreads

TInit ==
  /\ tpc = [t \in Threads |-> "idle"]
  /\ sleep_left = [t \in Threads |-> 0]

\* Thread t calls wait_for_download, draws its delay, reads last_download_time
\* and compares: lines 77-80.
TReadElapsed(t) ==
  /\ tpc[t] = "idle"
  /\ \E jitter \in Uniform(download_delay_min, download_delay_max) :
       LET delay == DownloadDelay(jitter, error_count)
           elapsed == Now - last_download_time
           sleep_time == SleepTime(delay, elapsed)
       IN /\ sleep_left' = [sleep_left EXCEPT ![t] = sleep_time]
          /\ tpc' = [tpc EXCEPT ![t] = IF elapsed < delay THEN "sleep" ELSE "passed"]
  /\ UNCHANGED <<rlvars, ytvars, bvars, fvars, avars>>

\* One second passes: every sleeping thread has slept one second more.
TTick ==
  /\ \/ last_download_time > 0
     \/ \E t \in Threads : tpc[t] = "sleep" /\ sleep_left[t] > 0
  /\ sleep_left' = [t \in Threads |-> IF sleep_left[t] > 0 THEN sleep_left[t] - 1 ELSE 0]
  /\ last_request_time' = Elapse(last_request_time, 1, RequestHorizon)
  /\ last_download_time' = Elapse(last_download_time, 1, DownloadHorizon)
  /\ UNCHANGED <<error_count, other_errors, last_call, tpc, ytvars, bvars, fvars, avars>>

\* time.sleep(sleep_time) returns in thread t: line 82.
TWake(t) ==
  /\ tpc[t] = "sleep"
  /\ sleep_left[t] = 0
  /\ tpc' = [tpc EXCEPT ![t] = "slept"]
  /\ UNCHANGED <<sleep_left, rlvars, ytvars, bvars, fvars, avars>>

\* Thread t writes last_download_time and returns: line 85.
TWrite(t) ==
  /\ tpc[t] \in {"passed", "slept"}
  /\ last_download_time' = Now
  /\ tpc' = [tpc EXCEPT ![t] = "idle"]
  /\ UNCHANGED <<last_request_time, error_count, other_errors, last_call, sleep_left,
                 ytvars, bvars, fvars, avars>>

NextThreads ==
  \/ \E t \in Threads : TReadElapsed(t)
  \/ TTick
  \/ \E t \in Threads : TWake(t)
  \/ \E t \in Threads : TWrite(t)

----------------------------------------------------------------------------
(* YouTubeDownloader.download_video *)

Urls == 1..NumUrls

VideoIds == 1..NumIds

\* ydl.extract_info(url, download=False)['id']: several URLs may name one video.
InfoId(u) == ((u - 1) % NumIds) + 1

\* What the try block raises: yt_dlp.utils.DownloadError with or without
\* '403' / 'Forbidden' in its message, or another exception.
DownloadErrors == {"DownloadError403", "DownloadError"}

Exceptions == DownloadErrors \cup {"Exception"}

\* audio_file.exists() and metadata_file.exists()
AlreadyDownloadedEither(id) == id \in media_files \/ id \in metadata_files

AlreadyDownloaded(id) == id \in media_files /\ id \in metadata_files

\* The metadata files once _save_metadata has written id's.
MetadataNotWritten(files, id) == files

MetadataWritten(files, id) == files \cup {id}

Count(counters, key) == [counters EXCEPT ![key] = @ + 1]

YTInit ==
  /\ pc = "idle"
  /\ url = None
  /\ video_id = None
  /\ exc = "none"
  /\ stats = [total |-> 0, success |-> 0, failed |-> 0, skipped |-> 0]
  /\ ret = <<FALSE, None>>
  /\ media_files = {}
  /\ metadata_files = {}
  /\ log = <<>>
  /\ succeeded = {}

\* download_video(u) is called: line 287.
DVCall ==
  /\ pc = "idle"
  /\ stats.total < MaxCalls
  /\ \E u \in Urls : url' = u
  /\ stats' = Count(stats, "total")
  /\ video_id' = None
  /\ exc' = "none"
  /\ log' = <<>>
  /\ pc' = "wait_request"
  /\ UNCHANGED <<ret, media_files, metadata_files, succeeded, rlvars, bvars, tvars, fvars, avars>>

\* self.rate_limiter.wait_for_request(): line 291.
DVWaitForRequest ==
  /\ pc = "wait_request"
  /\ \E jitter \in Uniform(min_delay, max_delay) : wait_for_request(jitter)
  /\ log' = Append(log, "wait_for_request")
  /\ pc' = "extract_info"
  /\ UNCHANGED <<url, video_id, exc, stats, ret, media_files, metadata_files, succeeded, bvars, tvars, fvars, avars>>

\* ydl.extract_info(url, download=False) and video_info['id']: lines 295-297.
DVExtractInfo ==
  /\ pc = "extract_info"
  /\ log' = Append(log, "extract_info")
  /\ \/ /\ video_id' = InfoId(url)
        /\ pc' = "check"
        /\ UNCHANGED exc
     \/ /\ \E e \in Exceptions : exc' = e
        /\ pc' = "except"
        /\ UNCHANGED video_id
  /\ UNCHANGED <<url, stats, ret, media_files, metadata_files, succeeded, rlvars, bvars, tvars, fvars, avars>>

\* The check placed after the download pacing.
DVCheckExistsPaced ==
  /\ pc = "check"
  /\ IF AlreadyDownloaded(video_id)
       THEN /\ \E jitter \in Uniform(download_delay_min, download_delay_max) :
                 wait_for_download(jitter)
            /\ stats' = Count(stats, "skipped")
            /\ ret' = <<TRUE, video_id>>
            /\ log' = log \o <<"wait_for_download", "skipped">>
            /\ pc' = "idle"
       ELSE /\ pc' = "wait_download"
            /\ UNCHANGED <<stats, ret, log, rlvars>>
  /\ UNCHANGED <<url, video_id, exc, media_files, metadata_files, succeeded, bvars, tvars, fvars, avars>>

\* The already-downloaded check: lines 299-307.
DVCheckExists ==
  /\ pc = "check"
  /\ IF AlreadyDownloaded(video_id)
       THEN /\ stats' = Count(stats, "skipped")
            /\ ret' = <<TRUE, video_id>>
            /\ log' = Append(log, "skipped")
            /\ pc' = "idle"
       ELSE /\ pc' = "wait_download"
            /\ UNCHANGED <<stats, ret, log>>
  /\ UNCHANGED <<url, video_id, exc, media_files, metadata_files, succeeded, rlvars, bvars, tvars, fvars, avars>>

\* self.rate_limiter.wait_for_download(): line 310.
DVWaitForDownload ==
  /\ pc = "wait_download"
  /\ \E jitter \in Uniform(download_delay_min, download_delay_max) : wait_for_download(jitter)
  /\ log' = Append(log, "wait_for_download")
  /\ pc' = "download"
  /\ UNCHANGED <<url, video_id, exc, stats, ret, media_files, metadata_files, succeeded, bvars, tvars, fvars, avars>>

\* _get_ydl_opts and ydl.download([url]): lines 313-317.  The download writes
\* the media file, or raises, and then may leave a media file behind.
DVDownload ==
  /\ pc = "download"
  /\ log' = Append(log, "download")
  /\ \/ /\ media_files' = media_files \cup {video_id}
        /\ pc' = "save_metadata"
        /\ UNCHANGED exc
     \/ /\ \E e \in Exceptions : exc' = e
        /\ \/ media_files' = media_files \cup {video_id}
           \/ UNCHANGED media_files
        /\ pc' = "except"
  /\ UNCHANGED <<url, video_id, stats, ret, metadata_files, succeeded, rlvars, bvars, tvars, fvars, avars>>

\* _extract_audio_metadata and _save_metadata: lines 319-329.  _save_metadata
\* writes the metadata file, or raises (open, json.dump), the file then being
\* created or not.
DVSaveMetadata ==
  /\ pc = "save_metadata"
  /\ log' = Append(log, "save_metadata")
  /\ \/ /\ metadata_files' = MetadataWritten(metadata_files, video_id)
        /\ pc' = "success"
        /\ UNCHANGED exc
     \/ /\ exc' = "Exception"
        /\ \/ metadata_files' = metadata_files \cup {video_id}
           \/ UNCHANGED metadata_files
        /\ pc' = "except"
  /\ UNCHANGED <<url, video_id, stats, ret, media_files, succeeded, rlvars, bvars, tvars, fvars, avars>>

\* The end of the try block: lines 331-336.
DVSuccess ==
  /\ pc = "success"
  /\ stats' = Count(stats, "success")
  /\ on_success
  /\ ret' = <<TRUE, video_id>>
  /\ log' = Append(log, "on_success")
  /\ succeeded' = succeeded \cup {video_id}
  /\ pc' = "idle"
  /\ UNCHANGED <<url, video_id, exc, media_files, metadata_files, bvars, tvars, fvars, avars>>

\* The except clauses without their count.
DVExceptUncounted ==
  /\ pc = "except"
  /\ error_count < MaxErrors
  /\ IF exc = "DownloadError403" THEN on_error(403) ELSE on_error(None)
  /\ ret' = <<FALSE, None>>
  /\ log' = Append(log, "on_error")
  /\ pc' = "idle"
  /\ UNCHANGED <<url, video_id, exc, stats, media_files, metadata_files, succeeded, bvars,
                 tvars, fvars, avars>>

\* The except clauses: lines 338-356.
DVExcept ==
  /\ pc = "except"
  /\ error_count < MaxErrors
  /\ IF exc = "DownloadError403" THEN on_error(403) ELSE on_error(None)
  /\ stats' = Count(stats, "failed")
  /\ ret' = <<FALSE, None>>
  /\ log' = Append(log, "on_error")
  /\ pc' = "idle"
  /\ UNCHANGED <<url, video_id, exc, media_files, metadata_files, succeeded, bvars, tvars, fvars, avars>>

NextYT ==
  \/ DVCall
  \/ DVWaitForRequest
  \/ DVExtractInfo
  \/ DVCheckExists
  \/ DVWaitForDownload
  \/ DVDownload
  \/ DVSaveMetadata
  \/ DVSuccess
  \/ DVExcept

----------------------------------------------------------------------------
(* YouTubeDownloader.download_from_file and download_channel.  The          *)
(* download_video calls they make run step by step as above.                *)

\* The one URL of the file that has a channel's shape ('/channel/', '/@',
\* '/c/', '/user/'): line 432.
ChannelUrls == {NumUrls + 1}

IsChannelUrl(u) == u \in ChannelUrls

\* The lines of the file: video URLs and channel URLs.
FileUrls == Urls \cup ChannelUrls

\* channel_info['entries']: a list of videos (here their ids) and of None.
EntryLists == ListsUpTo(VideoIds \cup {None}, MaxEntries)

\* video_url = f"https://www.youtube.com/watch?v={video['id']}": the URL that
\* extract_info resolves to this id.
WatchUrl(id) == id

\* videos[:max_videos] if max_videos, else videos: lines 386-387.
Cut(vs, n) == IF n # None THEN SubSeq(vs, 1, Min(n, Len(vs))) ELSE vs

FInit ==
  /\ entry = "none"
  /\ fpc = "idle"
  /\ file_urls = <<>>
  /\ fidx = 0
  /\ file_results = <<>>
  /\ max_videos = None
  /\ entries = <<>>
  /\ videos = <<>>
  /\ cidx = 0
  /\ channel_results = <<>>
  /\ work_items = 0

\* download_video(u) is called by download_from_file or download_channel:
\* line 287.
StartDownloadVideo(u) ==
  /\ pc = "idle"
  /\ url' = u
  /\ stats' = Count(stats, "total")
  /\ video_id' = None
  /\ exc' = "none"
  /\ log' = <<>>
  /\ pc' = "wait_request"
  /\ UNCHANGED <<ret, media_files, metadata_files, succeeded, rlvars>>

\* download_from_file(urls_file) is called, the file holding these URLs:
\* lines 419-425.
CallDownloadFromFile ==
  /\ fpc = "idle"
  /\ entry' = "file"
  /\ file_urls' \in ListsUpTo(FileUrls, MaxFileUrls)
  /\ fidx' = 1
  /\ file_results' = <<>>
  /\ fpc' = "file_loop"
  /\ UNCHANGED <<max_videos, entries, videos, cidx, channel_results, work_items,
                 rlvars, ytvars>>

\* download_channel(channel_url, max_videos) is called from main: line 498.
CallDownloadChannel ==
  /\ fpc = "idle"
  /\ entry' = "channel"
  /\ max_videos' \in {None} \cup (1..MaxEntries)
  /\ fpc' = "channel_extract"
  /\ UNCHANGED <<file_urls, fidx, file_results, entries, videos, cidx, channel_results,
                 work_items, rlvars, ytvars>>

\* The for loop of download_from_file: lines 426-438.  It ends and returns
\* results, or calls download_channel(url) or download_video(url).
FileLoop ==
  /\ fpc = "file_loop"
  /\ IF fidx > Len(file_urls)
       THEN /\ fpc' = "returned"
            /\ UNCHANGED <<max_videos, work_items, rlvars, ytvars>>
       ELSE IF IsChannelUrl(file_urls[fidx])
         THEN /\ fpc' = "channel_extract"
              /\ max_videos' = None
              /\ UNCHANGED <<work_items, rlvars, ytvars>>
         ELSE /\ StartDownloadVideo(file_urls[fidx])
              /\ fpc' = "file_video"
              /\ work_items' = work_items + 1
              /\ UNCHANGED max_videos
  /\ UNCHANGED <<entry, file_urls, fidx, file_results, entries, videos, cidx,
                 channel_results>>

\* The loop staying on a URL whose download_video returned False.
FileVideoDoneRetry ==
  /\ fpc = "file_video"
  /\ pc = "idle"
  /\ IF ret[1]
       THEN /\ file_results' = Append(file_results, ret)
            /\ fidx' = fidx + 1
       ELSE UNCHANGED <<file_results, fidx>>
  /\ fpc' = "file_loop"
  /\ UNCHANGED <<entry, file_urls, max_videos, entries, videos, cidx, channel_results,
                 work_items, rlvars, ytvars>>

\* download_video has returned to download_from_file: lines 437-438.
FileVideoDone ==
  /\ fpc = "file_video"
  /\ pc = "idle"
  /\ file_results' = Append(file_results, ret)
  /\ fidx' = fidx + 1
  /\ fpc' = "file_loop"
  /\ UNCHANGED <<entry, file_urls, max_videos, entries, videos, cidx, channel_results,
                 work_items, rlvars, ytvars>>

\* download_channel returns rs: to main, or to download_from_file, which
\* extends its results (lines 434-435).
ChannelReturn(rs) ==
  /\ channel_results' = rs
  /\ IF entry = "file"
       THEN /\ file_results' = file_results \o rs
            /\ fidx' = fidx + 1
            /\ fpc' = "file_loop"
       ELSE /\ fpc' = "returned"
            /\ UNCHANGED <<file_results, fidx>>

\* ydl.extract_info(channel_url, download=False) and the cut: lines 371-390.
\* It raises (caught at line 405: return []), returns no 'entries' (return
\* []), or returns the entries.
ChannelExtract ==
  /\ fpc = "channel_extract"
  /\ \/ /\ ChannelReturn(<<>>)
        /\ work_items' = work_items + 1
        /\ UNCHANGED <<entries, videos, cidx>>
     \/ \E es \in EntryLists :
          /\ entries' = es
          /\ videos' = Cut(es, max_videos)
          /\ work_items' = work_items + Len(Cut(es, max_videos))
          /\ cidx' = 1
          /\ channel_results' = <<>>
          /\ fpc' = "channel_loop"
          /\ UNCHANGED <<file_results, fidx>>
  /\ UNCHANGED <<entry, file_urls, max_videos, rlvars, ytvars>>

\* The for loop of download_channel: lines 392-403.  It ends and returns
\* results, skips an entry that is None, or calls download_video.
ChannelLoop ==
  /\ fpc = "channel_loop"
  /\ IF cidx > Len(videos)
       THEN /\ ChannelReturn(channel_results)
            /\ UNCHANGED <<cidx, rlvars, ytvars>>
       ELSE IF videos[cidx] = None
         THEN /\ cidx' = cidx + 1
              /\ UNCHANGED <<fpc, file_results, fidx, channel_results, rlvars, ytvars>>
         ELSE /\ StartDownloadVideo(WatchUrl(videos[cidx]))
              /\ fpc' = "channel_video"
              /\ UNCHANGED <<cidx, file_results, fidx, channel_results>>
  /\ UNCHANGED <<entry, file_urls, max_videos, entries, videos, work_items>>

\* download_video has returned to download_channel: lines 401-402.
ChannelVideoDone ==
  /\ fpc = "channel_video"
  /\ pc = "idle"
  /\ channel_results' = Append(channel_results, ret)
  /\ cidx' = cidx + 1
  /\ fpc' = "channel_loop"
  /\ UNCHANGED <<entry, file_urls, fidx, file_results, max_videos, entries, videos,
                 work_items, rlvars, ytvars>>

NextFile ==
  \/ (CallDownloadFromFile /\ UNCHANGED <<bvars, tvars, avars>>)
  \/ (CallDownloadChannel /\ UNCHANGED <<bvars, tvars, avars>>)
  \/ (FileLoop /\ UNCHANGED <<bvars, tvars, avars>>)
  \/ (FileVideoDone /\ UNCHANGED <<bvars, tvars, avars>>)
  \/ (ChannelExtract /\ UNCHANGED <<bvars, tvars, avars>>)
  \/ (ChannelLoop /\ UNCHANGED <<bvars, tvars, avars>>)
  \/ (ChannelVideoDone /\ UNCHANGED <<bvars, tvars, avars>>)
  \/ DVWaitForRequest
  \/ DVExtractInfo
  \/ DVCheckExists
  \/ DVWaitForDownload
  \/ DVDownload
  \/ DVSaveMetadata
  \/ DVSuccess
  \/ DVExcept

----------------------------------------------------------------------------
(* download_from_file reading a file of video URLs *)

\* The files none of whose lines has a channel's shape: every line goes to
\* the else branch of line 436.
VideoFiles == ListsUpTo(Urls, MaxFileUrls)

\* download_from_file(urls_file) is called, the file holding video URLs:
\* lines 419-425.
CallDownloadFromVideoFile ==
  /\ fpc = "idle"
  /\ entry' = "file"
  /\ file_urls' \in VideoFiles
  /\ fidx' = 1
  /\ file_results' = <<>>
  /\ fpc' = "file_loop"
  /\ UNCHANGED <<max_videos, entries, videos, cidx, channel_results, work_items,
                 rlvars, ytvars>>

NextVideoFile ==
  \/ (CallDownloadFromVideoFile /\ UNCHANGED <<bvars, tvars, avars>>)
  \/ (FileLoop /\ UNCHANGED <<bvars, tvars, avars>>)
  \/ (FileVideoDone /\ UNCHANGED <<bvars, tvars, avars>>)
  \/ DVWaitForRequest
  \/ DVExtractInfo
  \/ DVCheckExists
  \/ DVWaitForDownload
  \/ DVDownload
  \/ DVSaveMetadata
  \/ DVSuccess
  \/ DVExcept

----------------------------------------------------------------------------
(* The scrape pipeline: TurboScribeBatch and ParallelAudioDownloader *)

\* The URLs of the input list: two videos, in the two shapes _extract_video_id
\* reads an id from ('v=' and 'youtu.be/').  A list may hold a URL twice.
ScrapeUrls == {"youtube.com/watch?v=A", "youtu.be/B"}

\* What session.post returns for a URL: HTTP 200 with a decoded content that
\* holds an audio link ("link"), holds none ("nolink") or is empty ("empty");
\* another status ("http_error"); or requests.exceptions.RequestException.
Contents == {"link", "nolink", "empty"}

PostOutcomes == Contents \cup {"http_error", "RequestException"}

\* What _download_audio does: it saves the file and returns its path, or a
\* timeout or another exception is caught and it returns None.
DownloadOutcomes == {"saved", "Timeout", "Exception"}

\* _download_audio's return value.
AudioFile(outcome) == IF outcome = "saved" THEN "path" ELSE "None"

\* The dict process_single_url returns: lines 277-300.  A key the dict does
\* not hold is "absent"; response is the decoded content.
SuccessResult(u, content) ==
  [url |-> u, status |-> "success", error |-> "absent", response |-> content,
   html_file |-> "None", audio_link |-> "absent", audio_file |-> "None"]

\* error is f"HTTP {response.status_code}" with status failed, str(e) with
\* status error.
FailureResult(u, status) ==
  [url |-> u, status |-> status,
   error |-> IF status = "failed" THEN "HTTP status"
             ELSE IF status = "error" THEN "str(e)" ELSE "absent",
   response |-> "absent", html_file |-> "absent",
   audio_link |-> "absent", audio_file |-> "absent"]

\* _extract_audio_link(content): the first audio link, or None.
ExtractAudioLink(content) == IF content = "link" THEN "link" ELSE "None"

\* results.append(result): turboscribe_batch.py:375, batch_from_file_parallel.py:91.
AppendedIfSuccess(rs, r) == IF r.status = "success" THEN Append(rs, r) ELSE rs

Prepended(rs, r) == <<r>> \o rs

Appended(rs, r) == Append(rs, r)

\* download_tasks: the results with status success and an audio link (line 100).
IsDownloadTaskAnySuccess(r) == r.status = "success"

IsDownloadTask(r) == r.status = "success" /\ r.audio_link = "link"

\* The indices of a sequence that satisfy Test, in order.
RECURSIVE Selected(_, _)
Selected(rs, n) ==
  IF n = 0 THEN <<>>
  ELSE IF IsDownloadTask(rs[n]) THEN Append(Selected(rs, n - 1), n)
       ELSE Selected(rs, n - 1)

DownloadTasks(rs) == Selected(rs, Len(rs))

\* time.strftime("%Y%m%d_%H%M%S") in second t.
TimeStamp(t) == ToString(t)

\* _extract_video_id(youtube_url) in second t: what follows 'v=' or
\* 'youtu.be/', or else the time stamp.
ExtractVideoId(u, t) ==
  CASE u = "youtube.com/watch?v=A" -> "A"
    [] u = "youtu.be/B" -> "B"
    [] OTHER -> TimeStamp(t)

\* ext: read off the mime type in the audio link; every link the resolve
\* endpoint returns here has the same mime type.
Ext(audio_link) == "weba"

\* filepath = output_dir / f"{video_id}_{timestamp}.{ext}" in second t.
FilePath(id, t, ext) == [video_id |-> id, timestamp |-> TimeStamp(t), ext |-> ext]

\* ThreadPoolExecutor(max_workers): a worker takes a task off the queue only
\* while fewer than max_workers tasks are running.
WorkerFreeOffByOne == Cardinality(running) <= max_workers

WorkerFree == Cardinality(running) < max_workers

BInit ==
  /\ mode = "idle"
  /\ urls = <<>>
  /\ save_html = TRUE
  /\ download_audio = TRUE
  /\ max_workers = 1
  /\ bpc = "idle"
  /\ idx = 0
  /\ result = FailureResult(None, "none")
  /\ results = <<>>
  /\ queue = <<>>
  /\ running = {}
  /\ finished = {}
  /\ completed = 0
  /\ clock = 0
  /\ dest = [j \in {} |-> None]
  /\ summary = [total |-> 0, success |-> 0, failed |-> 0]

\* process_batch(youtube_urls, save_html, download_audio) is called.
CallProcessBatch ==
  /\ bpc = "idle"
  /\ mode' = "sequential"
  /\ urls' \in ListsUpTo(ScrapeUrls, MaxUrls)
  /\ save_html' \in BOOLEAN
  /\ download_audio' \in BOOLEAN
  /\ idx' = 1
  /\ bpc' = "loop"
  /\ UNCHANGED <<max_workers, result, results, queue, running, finished, completed, clock, dest, summary>>

\* ParallelAudioDownloader(processor, max_workers).process_with_parallel_download(urls)
\* is called; it calls process_single_url with save_html=True, download_audio=False.
CallProcessWithParallelDownload ==
  /\ bpc = "idle"
  /\ mode' = "parallel"
  /\ urls' \in ListsUpTo(ScrapeUrls, MaxUrls)
  /\ max_workers' \in 1..MaxWorkers
  /\ save_html' = TRUE
  /\ download_audio' = FALSE
  /\ idx' = 1
  /\ bpc' = "loop"
  /\ UNCHANGED <<result, results, queue, running, finished, completed, clock, dest, summary>>

\* The for loop starts with the first URL, or ends: process_batch returns
\* results, process_with_parallel_download goes on to its second step.
LoopNext ==
  /\ bpc = "loop"
  /\ IF idx <= Len(urls) THEN bpc' = "post"
     ELSE IF mode = "sequential" THEN bpc' = "returned"
     ELSE bpc' = "submit"
  /\ UNCHANGED <<mode, urls, save_html, download_audio, max_workers, idx, result,
                 results, queue, running, finished, completed, clock, dest, summary>>

\* Where process_single_url goes after the response is decoded (and saved).
AfterSave(content) ==
  IF download_audio /\ content # "empty" /\ ExtractAudioLink(content) = "link"
    THEN "download"
    ELSE "return"

\* session.post and the branch on status_code: lines 249-260, 285-300.
Post ==
  /\ bpc = "post"
  /\ \E o \in PostOutcomes :
       IF o \in Contents
         THEN /\ result' = SuccessResult(urls[idx], o)
              /\ bpc' = IF save_html /\ o # "empty" THEN "save_html" ELSE AfterSave(o)
         ELSE /\ result' = FailureResult(urls[idx],
                             IF o = "http_error" THEN "failed" ELSE "error")
              /\ bpc' = "return"
  /\ UNCHANGED <<mode, urls, save_html, download_audio, max_workers, idx, results,
                 queue, running, finished, completed, clock, dest, summary>>

\* _save_html_response: lines 264-265, 302-330.  It writes the file, or raises
\* (mkdir, open, write); process_single_url catches RequestException only, so
\* the exception leaves process_single_url and the orchestrator.
SaveHtml ==
  /\ bpc = "save_html"
  /\ \/ /\ result' = [result EXCEPT !.html_file = "path"]
        /\ bpc' = AfterSave(result.response)
     \/ /\ bpc' = "raised"
        /\ UNCHANGED result
  /\ UNCHANGED <<mode, urls, save_html, download_audio, max_workers, idx, results,
                 queue, running, finished, completed, clock, dest, summary>>

\* _download_audio called from process_single_url: lines 269-273.
DownloadStart ==
  /\ bpc = "download"
  /\ bpc' = "downloading"
  /\ UNCHANGED <<mode, urls, save_html, download_audio, max_workers, idx, result,
                 results, queue, running, finished, completed, clock, dest, summary>>

DownloadEnd ==
  /\ bpc = "downloading"
  /\ \E o \in DownloadOutcomes : result' = [result EXCEPT !.audio_file = AudioFile(o)]
  /\ bpc' = "return"
  /\ UNCHANGED <<mode, urls, save_html, download_audio, max_workers, idx, results,
                 queue, running, finished, completed, clock, dest, summary>>

\* process_single_url returns; the orchestrator appends the result
\* (process_batch: line 375; process_with_parallel_download: lines 86-91,
\* where the audio link is extracted first).
ReturnAndAppend ==
  /\ bpc = "return"
  /\ LET r == IF mode = "parallel" /\ result.status = "success" /\ result.response # "empty"
                THEN [result EXCEPT !.audio_link = ExtractAudioLink(result.response)]
                ELSE result
     IN results' = Appended(results, r)
  /\ bpc' = IF idx < Len(urls) THEN "sleep" ELSE "loop"
  /\ idx' = IF idx < Len(urls) THEN idx ELSE idx + 1
  /\ UNCHANGED <<mode, urls, save_html, download_audio, max_workers, result,
                 queue, running, finished, completed, clock, dest, summary>>

\* time.sleep(self.delay), but after the last URL; then the next URL's turn.
SleepDelay ==
  /\ bpc = "sleep"
  /\ idx' = idx + 1
  /\ bpc' = "post"
  /\ UNCHANGED <<mode, urls, save_html, download_audio, max_workers, result, results,
                 queue, running, finished, completed, clock, dest, summary>>

\* Phase 2: download_tasks are submitted to the executor (lines 100-108); with
\* no download task the function returns at once.
Submit ==
  /\ bpc = "submit"
  /\ queue' = DownloadTasks(results)
  /\ bpc' = IF DownloadTasks(results) = <<>> THEN "returned" ELSE "collect"
  /\ UNCHANGED <<mode, urls, save_html, download_audio, max_workers, idx, result,
                 results, running, finished, completed, clock, dest, summary>>

\* A second passes while Phase 2 runs.
SecondPasses ==
  /\ bpc = "collect"
  /\ clock < MaxSeconds
  /\ clock' = clock + 1
  /\ UNCHANGED <<mode, urls, save_html, download_audio, max_workers, bpc, idx, result,
                 results, queue, running, finished, completed, dest, summary>>

\* A worker thread takes the oldest task and enters download_audio_task, which
\* calls _extract_video_id and _download_audio; _download_audio makes its
\* file path and starts the download (lines 57-58, 182-202).
TaskStart ==
  /\ queue # <<>>
  /\ WorkerFree
  /\ LET i == Head(queue)
         id == ExtractVideoId(results[i].url, clock)
     IN /\ running' = running \cup {i}
        /\ dest' = [j \in running \cup {i} |->
                      IF j = i THEN FilePath(id, clock, Ext(results[i].audio_link))
                      ELSE dest[j]]
  /\ queue' = Tail(queue)
  /\ UNCHANGED <<mode, urls, save_html, download_audio, max_workers, bpc, idx, result,
                 results, finished, completed, clock, summary>>

\* download_audio_task ends: _download_audio has returned and the task has
\* set result['audio_file'] (lines 59-63).
TaskEnd ==
  \E i \in running :
    /\ \E o \in DownloadOutcomes :
         results' = [results EXCEPT ![i].audio_file = AudioFile(o)]
    /\ running' = running \ {i}
    /\ dest' = [j \in running \ {i} |-> dest[j]]
    /\ finished' = finished \cup {i}
    /\ UNCHANGED <<mode, urls, save_html, download_audio, max_workers, bpc, idx, result,
                   queue, completed, clock, summary>>

\* as_completed yields a finished future: lines 112-115.
Collect ==
  /\ bpc = "collect"
  /\ completed < Cardinality(finished)
  /\ completed' = completed + 1
  /\ UNCHANGED <<mode, urls, save_html, download_audio, max_workers, bpc, idx, result,
                 results, queue, running, finished, clock, dest, summary>>

\* print_summary(results)'s success count: turboscribe_batch.py:404.
SuccessCountDownloaded(rs) ==
  Cardinality({i \in 1..Len(rs) : rs[i].audio_file = "path"})

SuccessCount(rs) ==
  Cardinality({i \in 1..Len(rs) : rs[i].status = "success"})

\* The counts print_summary prints: lines 403-405.
Summary(rs) ==
  [total |-> Len(rs), success |-> SuccessCount(rs), failed |-> Len(rs) - SuccessCount(rs)]

\* main calls print_summary on the results the orchestrator returned.
PrintSummary ==
  /\ bpc = "returned"
  /\ summary' = Summary(results)
  /\ bpc' = "printed"
  /\ UNCHANGED <<mode, urls, save_html, download_audio, max_workers, idx, result,
                 results, queue, running, finished, completed, clock, dest>>

\* Every future has been yielded: the with block ends and results is returned.
ReturnResults ==
  /\ bpc = "collect"
  /\ completed = Len(DownloadTasks(results))
  /\ bpc' = "returned"
  /\ UNCHANGED <<mode, urls, save_html, download_audio, max_workers, idx, result,
                 results, queue, running, finished, completed, clock, dest, summary>>

NextBatch ==
  \/ (CallProcessBatch /\ UNCHANGED <<rlvars, ytvars, tvars, fvars, avars>>)
  \/ (CallProcessWithParallelDownload /\ UNCHANGED <<rlvars, ytvars, tvars, fvars, avars>>)
  \/ (LoopNext /\ UNCHANGED <<rlvars, ytvars, tvars, fvars, avars>>)
  \/ (Post /\ UNCHANGED <<rlvars, ytvars, tvars, fvars, avars>>)
  \/ (SaveHtml /\ UNCHANGED <<rlvars, ytvars, tvars, fvars, avars>>)
  \/ (DownloadStart /\ UNCHANGED <<rlvars, ytvars, tvars, fvars, avars>>)
  \/ (DownloadEnd /\ UNCHANGED <<rlvars, ytvars, tvars, fvars, avars>>)
  \/ (ReturnAndAppend /\ UNCHANGED <<rlvars, ytvars, tvars, fvars, avars>>)
  \/ (SleepDelay /\ UNCHANGED <<rlvars, ytvars, tvars, fvars, avars>>)
  \/ (Submit /\ UNCHANGED <<rlvars, ytvars, tvars, fvars, avars>>)
  \/ (SecondPasses /\ UNCHANGED <<rlvars, ytvars, tvars, fvars, avars>>)
  \/ (TaskStart /\ UNCHANGED <<rlvars, ytvars, tvars, fvars, avars>>)
  \/ (TaskEnd /\ UNCHANGED <<rlvars, ytvars, tvars, fvars, avars>>)
  \/ (Collect /\ UNCHANGED <<rlvars, ytvars, tvars, fvars, avars>>)
  \/ (ReturnResults /\ UNCHANGED <<rlvars, ytvars, tvars, fvars, avars>>)
  \/ (PrintSummary /\ UNCHANGED <<rlvars, ytvars, tvars, fvars, avars>>)

----------------------------------------------------------------------------
(* TurboScribeBatch._download_audio, statement by statement, called by two  *)
(* workers at any time (the tasks of Phase 2, or process_single_url), on    *)
(* one audio_downloads directory.                                           *)

Workers == {"w1", "w2"}

\* The video ids _download_audio is called with.
AudioIds == {ExtractVideoId(u, 0) : u \in ScrapeUrls}

\* The path each worker starts with: none yet.
NoPath == FilePath("none", 0, "none")

\* The disk once a file has been opened for writing ('wb': created, or cut to
\* nothing) and written to the end ("complete") or not ("partial").
Written(files, p, state) ==
  [q \in (DOMAIN files) \cup {p} |-> IF q = p THEN state ELSE files[q]]

\* The disk after the except clauses of _download_audio: lines 227-233.
AfterErrorCleanedUp(files, p) == [q \in (DOMAIN files) \ {p} |-> files[q]]

AfterError(files, p) == files

AInit ==
  /\ disk = [q \in {} |-> "partial"]
  /\ apc = [w \in Workers |-> "idle"]
  /\ filepath = [w \in Workers |-> NoPath]
  /\ aret = [w \in Workers |-> "None"]

\* A second passes.
ASecondPasses ==
  /\ clock < MaxSeconds
  /\ clock' = clock + 1
  /\ UNCHANGED <<mode, urls, save_html, download_audio, max_workers, bpc, idx, result,
                 results, queue, running, finished, completed, dest, summary>>
  /\ UNCHANGED <<avars, rlvars, ytvars, tvars, fvars>>

\* Worker w calls _download_audio(audio_url, video_id): the directory, the
\* extension and the file path (lines 176-194).
AStart(w) ==
  /\ apc[w] = "idle"
  /\ \E id \in AudioIds : filepath' = [filepath EXCEPT ![w] = FilePath(id, clock, Ext("link"))]
  /\ apc' = [apc EXCEPT ![w] = "request"]
  /\ UNCHANGED <<disk, aret, rlvars, ytvars, bvars, tvars, fvars>>

\* requests.get and raise_for_status (lines 198-203), then open(filepath,
\* 'wb') (line 212); or the request times out or fails.
AGet(w) ==
  /\ apc[w] = "request"
  /\ \/ /\ disk' = Written(disk, filepath[w], "partial")
        /\ apc' = [apc EXCEPT ![w] = "writing"]
     \/ /\ apc' = [apc EXCEPT ![w] = "failed_request"]
        /\ UNCHANGED disk
  /\ UNCHANGED <<filepath, aret, rlvars, ytvars, bvars, tvars, fvars>>

\* The loop over iter_content (lines 212-221): every chunk is written, the
\* file is closed and its path returned; or reading times out or fails after
\* some chunks, and the with statement closes the file.
AWrite(w) ==
  /\ apc[w] = "writing"
  /\ \/ /\ disk' = Written(disk, filepath[w], "complete")
        /\ apc' = [apc EXCEPT ![w] = "idle"]
        /\ aret' = [aret EXCEPT ![w] = "path"]
     \/ /\ apc' = [apc EXCEPT ![w] = "failed_write"]
        /\ UNCHANGED <<disk, aret>>
  /\ UNCHANGED <<filepath, rlvars, ytvars, bvars, tvars, fvars>>

\* The except clauses: the error is logged and None returned (lines 227-233).
AExcept(w) ==
  /\ apc[w] \in {"failed_request", "failed_write"}
  /\ disk' = AfterError(disk, filepath[w])
  /\ apc' = [apc EXCEPT ![w] = "idle"]
  /\ aret' = [aret EXCEPT ![w] = "None"]
  /\ UNCHANGED <<filepath, rlvars, ytvars, bvars, tvars, fvars>>

NextAudio ==
  \/ ASecondPasses
  \/ \E w \in Workers : AStart(w)
  \/ \E w \in Workers : AGet(w)
  \/ \E w \in Workers : AWrite(w)
  \/ \E w \in Workers : AExcept(w)

----------------------------------------------------------------------------
(* The specifications *)

\* The state after construction: a RateLimiter, a YouTubeDownloader with an
\* empty output directory, and no orchestrator called yet.
Init ==
  /\ RLInit
  /\ YTInit
  /\ BInit
  /\ TInit
  /\ FInit
  /\ AInit

\* The RateLimiter's methods called directly, in any order.
SpecRL == Init /\ [][NextRL]_vars

\* download_video called on any URLs, one call after the other.
SpecYT == Init /\ [][NextYT]_vars

\* One call of either orchestrator, on any list of URLs.
SpecBatch == Init /\ [][NextBatch]_vars

\* The same, every thread that can take a step taking one in the end: the
\* calling thread goes on, every network call returns or times out, and the
\* executor runs a queued task once a worker is free.
SpecBatchFair == SpecBatch /\ WF_vars(NextBatch)

\* One call of download_from_file or of download_channel.
SpecFile == Init /\ [][NextFile]_vars

\* One call of download_from_file on a file of video URLs.
SpecVideoFile == Init /\ [][NextVideoFile]_vars

\* _download_audio called by two workers at any time.
SpecAudio == Init /\ [][NextAudio]_vars

\* wait_for_download called by NumThreads threads at any time.
SpecThreads == Init /\ [][NextThreads]_vars

----------------------------------------------------------------------------
(* Claims about the scrape pipeline, under SpecBatch *)

\* C1: the results of either orchestrator are, at any moment, the records of
\* the first URLs of the input list, in order and each with its URL; and when
\* the orchestrator returns, there are exactly as many as input URLs.
C1_OneResultPerUrl ==
  /\ Len(results) <= Len(urls)
  /\ \A i \in 1..Len(results) : results[i].url = urls[i]
  /\ (bpc = "returned" => Len(results) = Len(urls))

\* C1's case: an orchestrator has returned the records of MaxUrls URLs, one
\* whose resolve failed, one whose resolve raised, one resolved.
C1_Witness ==
  /\ bpc = "returned"
  /\ Len(urls) >= 3
  /\ \E i, j, k \in 1..Len(results) :
       /\ results[i].status = "failed"
       /\ results[j].status = "error"
       /\ results[k].status = "success"

\* C2: in two-phase mode the number of tasks inside download_audio_task is at
\* most max_workers at every moment.
C2_AtMostMaxWorkers ==
  mode = "parallel" => Cardinality(running) <= max_workers

\* C2's case: more tasks submitted than workers, max_workers of them running
\* and another waiting in the queue.
C2_Witness ==
  /\ mode = "parallel"
  /\ max_workers >= 2
  /\ Cardinality(running) = max_workers
  /\ queue # <<>>

\* C12: in two-phase mode the resolve of the idx-th URL starts only when the
\* results of all URLs before it have been appended (one resolve at a time,
\* in input order), and once Phase 1 is over the i-th result is the record of
\* the i-th input URL, whether its resolve succeeded or failed.
C12_PhaseOneSerialInOrder ==
  mode = "parallel" =>
    /\ (bpc \in {"post", "save_html", "return"} =>
          /\ idx \in 1..Len(urls)
          /\ Len(results) = idx - 1)
    /\ (bpc \in {"save_html", "return"} => result.url = urls[idx])
    /\ (bpc = "sleep" => Len(results) = idx /\ idx < Len(urls))
    /\ (bpc \in {"loop", "post", "save_html", "return", "sleep"} =>
          queue = <<>> /\ running = {} /\ finished = {})
    /\ (bpc \in {"submit", "collect", "returned"} =>
          /\ Len(results) = Len(urls)
          /\ \A i \in 1..Len(urls) : results[i].url = urls[i])

\* C12's case: Phase 1 is over for three URLs, the first two different, the
\* resolve of the second having failed.
C12_Witness ==
  /\ mode = "parallel"
  /\ bpc = "submit"
  /\ Len(urls) = 3
  /\ urls[1] # urls[2]
  /\ results[1].status = "success"
  /\ results[2].status = "error"
  /\ results[3].status = "success"

\* C13, as claimed: in two-phase mode every resolve (session.post), the
\* first included, is issued right after a wait_for_request call on the
\* RateLimiter.
C13_ResolvePacedByRateLimiter ==
  [][(mode = "parallel" /\ bpc = "post" /\ bpc' # "post") =>
       last_call.op = "wait_for_request"]_vars

\* C14, as claimed: in Phase 2 the step in which a worker starts a download
\* has made a wait_for_download call on the RateLimiter before the request.
C14_WorkerPacedBeforeDownload ==
  [][(mode = "parallel" /\ Cardinality(running') > Cardinality(running)) =>
       /\ last_call'.op = "wait_for_download"
       /\ last_download_time' = Now]_vars

\* C16, as claimed: the destination paths of the downloads running at the
\* same time are pairwise distinct.
C16_DestinationsDistinct ==
  \A i, j \in DOMAIN dest : i # j => dest[i] # dest[j]

\* C17, as claimed: no failure while an item is processed leaves the
\* orchestrator as an exception; every failure ends in the item's record.
C17_NoFailureAbortsBatch ==
  bpc # "raised"

\* C18, as claimed: a Phase 2 task whose download has timed out or failed
\* (its _download_audio returned None) leaves its record with status error
\* and an error detail.
C18_DownloadFailureIsError ==
  \A i \in finished :
    results[i].audio_file = "None" =>
      /\ results[i].status = "error"
      /\ results[i].error # "absent"

\* C19, as claimed: a record whose resolve returned HTTP 200 with no audio
\* link in the response has status failed and the detail "no media link", and
\* no download is attempted for it.
C19_NoLinkIsFailed ==
  \A i \in 1..Len(results) :
    results[i].response \in {"nolink", "empty"} =>
      /\ results[i].status = "failed"
      /\ results[i].error = "no media link"
      /\ results[i].audio_file \in {"None", "absent"}
      /\ i \notin running \cup finished

\* The Phase 1 results that resolved with HTTP 200 and hold an audio link.
LinkedResults(rs) ==
  {i \in 1..Len(rs) : rs[i].response = "link" /\ rs[i].audio_link = "link"}

\* C21: in two-phase mode the tasks submitted are the results that resolved
\* with a link, each once and in order; from then on every such result is
\* in exactly one of queue, running and finished; a step of Phase 2 changes
\* the record of a running task only, and only its audio_file, to a path or
\* to None; and at the return every such result is finished and no other
\* result holds a downloaded file.
C21_ExactlyLinkedResultsDownloaded ==
  [][mode = "parallel" =>
       LET queued == {queue'[k] : k \in 1..Len(queue')}
       IN /\ (bpc = "submit" =>
                /\ queued = LinkedResults(results)
                /\ Len(queue') = Cardinality(queued)
                /\ \A k \in 1..(Len(queue') - 1) : queue'[k] < queue'[k + 1])
          /\ (bpc' \in {"collect", "returned"} =>
                /\ queued \cup running' \cup finished' = LinkedResults(results')
                /\ Len(queue') = Cardinality(queued)
                /\ queued \cap running' = {}
                /\ queued \cap finished' = {}
                /\ running' \cap finished' = {})
          /\ (bpc = "collect" =>
                \A i \in 1..Len(results) :
                  results'[i] # results[i] =>
                    /\ i \in running
                    /\ i \in finished'
                    /\ results'[i].audio_file \in {"path", "None"}
                    /\ results'[i] =
                         [results[i] EXCEPT !.audio_file = results'[i].audio_file])
          /\ (bpc' = "returned" =>
                /\ finished' = LinkedResults(results')
                /\ \A i \in 1..Len(results') :
                     i \notin LinkedResults(results') =>
                       results'[i].audio_file \in {"None", "absent"})]_vars

\* C21's case: of three results the first and the third were submitted, the
\* second (no link) was not; the third task has finished with a file before
\* the first, which is still running.
C21_Witness ==
  /\ mode = "parallel"
  /\ bpc = "collect"
  /\ Len(results) = 3
  /\ results[2].response = "nolink"
  /\ running = {1}
  /\ finished = {3}
  /\ results[3].audio_file = "path"
  /\ results[3].url = urls[3]

\* C22, as claimed: in sequential mode the resolve of the idx-th URL starts
\* only when the records of all URLs before it, their downloads done, have
\* been appended; every resolve is issued right after a wait_for_request
\* call, and every download right after a wait_for_download call.
C22_SequentialSerializedAndPaced ==
  [][mode = "sequential" =>
       /\ (bpc \in {"post", "save_html", "download", "downloading", "return"} =>
             Len(results) = idx - 1)
       /\ ((bpc = "post" /\ bpc' # "post") => last_call.op = "wait_for_request")
       /\ ((bpc = "download" /\ bpc' = "downloading") =>
             last_call.op = "wait_for_download")]_vars

\* C25, as claimed: a download is started only for an item that resolved
\* with a link, never after a resolve with no link or a failed resolve; and
\* when the orchestrator returns, an item whose download succeeded and an
\* item whose download failed have different statuses.
C25_StatusTellsTerminalStates ==
  /\ \A i \in running \cup finished : results[i].response = "link"
  /\ (bpc \in {"download", "downloading"} => result.response = "link")
  /\ ((bpc = "returned" /\ (mode = "parallel" \/ download_audio)) =>
        \A i, j \in 1..Len(results) :
          (/\ results[i].response = "link"
           /\ results[j].response = "link"
           /\ results[i].audio_file = "path"
           /\ results[j].audio_file = "None") =>
            results[i].status # results[j].status)

\* C29: the summary counts as success exactly the results whose resolve
\* returned HTTP 200 (there is a decoded response), with a link or without,
\* with a downloaded file or without; failed counts all the others, and
\* success + failed = total = the number of results.
C29_SummaryCountsResolves ==
  bpc = "printed" =>
    /\ summary.total = Len(results)
    /\ summary.success =
         Cardinality({i \in 1..Len(results) : results[i].response \in Contents})
    /\ summary.failed =
         Cardinality({i \in 1..Len(results) : results[i].response \notin Contents})
    /\ summary.success + summary.failed = summary.total

\* C29's case: of three results one resolved without a link, one resolved
\* with a link but its download failed, one did not resolve: two successes.
C29_Witness ==
  /\ bpc = "printed"
  /\ summary = [total |-> 3, success |-> 2, failed |-> 1]
  /\ \E i, j \in 1..Len(results) :
       /\ results[i].response = "nolink"
       /\ results[j].response = "link"
       /\ j \in finished
       /\ results[j].audio_file = "None"

----------------------------------------------------------------------------
(* Claims about the scrape pipeline's termination, under SpecBatchFair *)

\* C28, as claimed: in two-phase mode no download task is queued, running or
\* finished before the results of all input URLs are there; the call has
\* returned only with every submitted task finished; and every call returns
\* in the end.
C28_BarrierAndTermination ==
  /\ [](mode = "parallel" =>
         ((queue # <<>> \/ running # {} \/ finished # {}) =>
            /\ Len(results) = Len(urls)
            /\ bpc \in {"collect", "returned"}))
  /\ []((mode = "parallel" /\ bpc = "returned") =>
         /\ queue = <<>>
         /\ running = {}
         /\ finished = LinkedResults(results))
  /\ ((mode = "parallel") ~> (bpc = "returned"))

----------------------------------------------------------------------------
(* Claims about _download_audio, under SpecAudio *)

\* C26: the step in which _download_audio handles its timeout or exception
\* and returns None leaves every file on disk as it is, the worker's own
\* included: if the download failed after the file was opened, the file is
\* still there with the bytes written so far.
C26_ErrorPathKeepsFiles ==
  [][\A w \in Workers :
       (apc[w] \in {"failed_request", "failed_write"} /\ apc'[w] = "idle") =>
         /\ aret'[w] = "None"
         /\ disk' = disk
         /\ (apc[w] = "failed_write" => filepath[w] \in DOMAIN disk')]_vars

\* C26's case: a worker's download has failed part-way and returned None;
\* its partial file is on disk, next to the complete file of another item.
C26_Witness ==
  \E w \in Workers :
    /\ apc[w] = "idle"
    /\ aret[w] = "None"
    /\ filepath[w] \in DOMAIN disk
    /\ disk[filepath[w]] = "partial"
    /\ \E q \in DOMAIN disk : q.video_id # filepath[w].video_id /\ disk[q] = "complete"

----------------------------------------------------------------------------
(* Claims about one RateLimiter called by several threads, under SpecThreads *)

\* C15, as claimed: no two threads are inside wait_for_download between the
\* read of last_download_time and the write of it at the same time.
C15_RateLimiterMutualExclusion ==
  \A t1, t2 \in Threads :
    t1 # t2 => ~(tpc[t1] # "idle" /\ tpc[t2] # "idle")

----------------------------------------------------------------------------
(* Claims about download_video, under SpecYT *)

\* The call that has just returned ended as Skipped.
ReturnedSkipped == pc = "idle" /\ Len(log) > 0 /\ log[Len(log)] = "skipped"

C4_SecondCallSkipped ==
  [][(pc = "check" /\ video_id \in succeeded) =>
       /\ pc' = "idle"
       /\ ret' = <<TRUE, video_id>>
       /\ stats' = [stats EXCEPT !.skipped = @ + 1]
       /\ media_files' = media_files
       /\ \A i \in 1..Len(log') : log'[i] \notin {"wait_for_download", "download"}]_vars

\* C4's case: a call on an id downloaded by an earlier call has ended as Skipped.
C4_Witness ==
  /\ ReturnedSkipped
  /\ video_id \in succeeded
  /\ stats.success >= 1
  /\ stats.skipped >= 1

\* C5: stats.skipped is incremented only at the check and only if both the
\* media file and the metadata file of the id exist; if either is missing the
\* call counts nothing as skipped and goes on to pace and attempt the download.
C5_SkippedOnlyIfBothExist ==
  [][/\ (stats'.skipped # stats.skipped =>
          /\ pc = "check"
          /\ video_id \in media_files
          /\ video_id \in metadata_files
          /\ stats'.skipped = stats.skipped + 1)
     /\ ((pc = "check" /\ ~(video_id \in media_files /\ video_id \in metadata_files)) =>
          /\ pc' = "wait_download"
          /\ stats' = stats)
     /\ (pc = "wait_download" => pc' = "download")]_vars

\* C5's case: a media file left without metadata, and the download attempted again.
C5_Witness ==
  /\ pc = "download"
  /\ video_id \in media_files
  /\ video_id \notin metadata_files

\* C6: error_count is never negative; it grows only by one and only in the
\* except clauses' on_error call; it shrinks only to 0 and only in on_success;
\* wait_for_request and wait_for_download leave it as it is.
C6_ErrorCountMoves ==
  [][/\ error_count >= 0
     /\ error_count' >= 0
     /\ (error_count' > error_count =>
          /\ error_count' = error_count + 1
          /\ pc = "except"
          /\ last_call'.op = "on_error")
     /\ (error_count' < error_count =>
          /\ error_count' = 0
          /\ pc = "success"
          /\ last_call'.op = "on_success")
     /\ (pc \in {"wait_request", "wait_download"} => error_count' = error_count)]_vars

\* C6's case: two failures counted, then reset by a success.
C6_Witness ==
  /\ last_call.op = "on_success"
  /\ error_count = 0
  /\ stats.failed >= 2
  /\ stats.success >= 1

\* C7, as claimed: after every download_video call that has returned success
\* (a completed download or a skip), error_count is 0.
C7_SuccessResetsErrorCount ==
  (pc = "idle" /\ ret[1]) => error_count = 0

\* C20, as claimed: a failure that is not a 403 leaves the backoff the next
\* wait_for_request adds to its delay as it was.
C20_OnlyForbiddenSlowsDown ==
  [][(pc = "except" /\ exc # "DownloadError403") =>
       (IF error_count' > 0 THEN Min(2 ^ error_count', 60) ELSE 0)
         = (IF error_count > 0 THEN Min(2 ^ error_count, 60) ELSE 0)]_vars

\* C20, amended: every failure, 403 or not, increments error_count, and the
\* next wait_for_request adds min(2^error_count, 60) to its delay; a 403 is
\* the only failure that also sleeps at once (30, 60 or 120 s), any other
\* failure sleeps 0 s and leaves both timestamps as they are.
C20_EveryFailureAddsBackoff ==
  [][/\ (pc = "except" =>
          /\ error_count' = error_count + 1
          /\ last_call'.op = "on_error"
          /\ (exc = "DownloadError403" => last_call'.slept \in {30, 60, 120})
          /\ (exc # "DownloadError403" =>
                /\ last_call'.slept = 0
                /\ last_request_time' = last_request_time
                /\ last_download_time' = last_download_time))
     /\ (pc = "wait_request" =>
          /\ last_call'.backoff = (IF error_count > 0 THEN Min(2 ^ error_count, 60) ELSE 0)
          /\ last_call'.delay >= min_delay + last_call'.backoff)]_vars

\* C20's case: two failures, none of them a 403, and then a wait_for_request
\* that has added 4 s of backoff.
C20_Witness ==
  /\ last_call.op = "wait_for_request"
  /\ error_count = 2
  /\ other_errors
  /\ stats.failed = 2
  /\ last_request_time = Now
  /\ last_call.backoff = 4

\* C27: after every completed download_video call stats.total =
\* stats.success + stats.failed + stats.skipped (during a call total is one
\* ahead); the call increments total by one when it starts and exactly one of
\* success, failed and skipped by one when it returns, and nothing else
\* changes the counters.
C27_StatsConserved ==
  [][/\ stats'.total = stats'.success + stats'.failed + stats'.skipped
                        + (IF pc' = "idle" THEN 0 ELSE 1)
     /\ ((pc = "idle" /\ pc' # "idle") => stats' = [stats EXCEPT !.total = @ + 1])
     /\ ((pc # "idle" /\ pc' = "idle") =>
          \E key \in {"success", "failed", "skipped"} :
            stats' = [stats EXCEPT ![key] = @ + 1])
     /\ ((pc # "idle" /\ pc' # "idle") => stats' = stats)]_vars

\* C27's case: three calls have returned, one downloaded, one failed, one
\* skipped.
C27_Witness ==
  /\ pc = "idle"
  /\ stats.total = 3
  /\ stats.success = 1
  /\ stats.failed = 1
  /\ stats.skipped = 1

----------------------------------------------------------------------------
(* Claims about download_from_file and download_channel, under SpecFile *)

\* C23, as claimed: the expansion call of a channel URL is issued right
\* after a wait_for_request call; the videos to download are the channel's
\* entries in their order, cut to the first max_videos if a cap is given;
\* and the download_video calls are made on them in that order.
C23_ChannelExpansionPacedAndOrdered ==
  [][/\ ((fpc = "channel_extract" /\ fpc' # "channel_extract") =>
          /\ last_call.op = "wait_for_request"
          /\ (fpc' = "channel_loop" =>
                /\ Len(videos') = (IF max_videos = None THEN Len(entries')
                                   ELSE Min(max_videos, Len(entries')))
                /\ \A i \in 1..Len(videos') : videos'[i] = entries'[i]))
     /\ ((fpc = "channel_loop" /\ fpc' = "channel_video") =>
          /\ url' = WatchUrl(videos[cidx])
          /\ Len(channel_results) =
               Cardinality({i \in 1..(cidx - 1) : videos[i] # None}))]_vars

\* C24, as claimed: when download_from_file or download_channel returns, its
\* result list holds one tuple per work item it came across (a video URL, a
\* channel entry, a channel URL that could not be expanded), and so does
\* stats.total.
C24_OneResultPerWorkItem ==
  fpc = "returned" =>
    /\ Len(IF entry = "file" THEN file_results ELSE channel_results) = work_items
    /\ stats.total = work_items

----------------------------------------------------------------------------
(* Claims about the RateLimiter, under SpecRL.  There every step but Tick   *)
(* is a call, and last_call names the call a step has made.                 *)

\* C8: wait_for_request computes a delay of a value in [min_delay, max_delay]
\* plus the backoff, returns only when at least that delay has elapsed since
\* the last_request_time it found, and sets last_request_time to the current
\* time; with no time elapsed since the call before it sleeps at least
\* min_delay, and it sleeps 0 when the delay has already elapsed.
C8_WaitForRequestPaces ==
  [][last_call'.op = "wait_for_request" =>
       LET elapsed == Now - last_request_time
           delay == last_call'.delay
           slept == last_call'.slept
       IN /\ delay - last_call'.backoff \in min_delay..max_delay
          /\ (error_count = 0 => last_call'.backoff = 0)
          /\ (error_count > 0 => last_call'.backoff > 0)
          /\ elapsed + slept >= delay
          /\ last_request_time' = Now
          /\ (elapsed = 0 => slept >= min_delay)
          /\ (elapsed >= delay => slept = 0)]_vars

\* C8's case: a second call, no time elapsed since the first, has slept its
\* whole delay, which is at least min_delay.
C8_Witness ==
  /\ last_call.op = "wait_for_request"
  /\ last_call.slept = last_call.delay
  /\ last_call.slept >= min_delay
  /\ last_request_time = Now

\* C9: the backoff wait_for_request adds is 0 when error_count = 0, is
\* 2^error_count while that is below 60 (2, 4, 8, 16, 32), is 60 from
\* error_count = 6 on, and so never exceeds 60.
C9_BackoffCapped ==
  last_call.op = "wait_for_request" =>
    /\ last_call.backoff <= 60
    /\ (error_count = 0 => last_call.backoff = 0)
    /\ (error_count \in 1..5 => last_call.backoff = 2 ^ error_count)
    /\ (error_count >= 6 => last_call.backoff = 60)
    /\ last_call.delay - last_call.backoff \in min_delay..max_delay

\* C9's case: wait_for_request called with ten errors pending.
C9_Witness ==
  /\ last_call.op = "wait_for_request"
  /\ error_count = 10
  /\ last_call.backoff = 60

\* C10: counting from error_count = 0, the n-th on_error(403) in a row (no
\* on_success and no other on_error in between) sleeps 30 s, 60 s, 120 s, and
\* 120 s from the fourth on; on_error with another or no code does not sleep.
C10_ForbiddenLadder ==
  last_call.op = "on_error" =>
    IF last_call.code = 403
      THEN ~other_errors =>
             /\ (error_count = 1 => last_call.slept = 30)
             /\ (error_count = 2 => last_call.slept = 60)
             /\ (error_count = 3 => last_call.slept = 120)
             /\ (error_count >= 4 => last_call.slept = 120)
      ELSE last_call.slept = 0

\* C10's case: the fifth on_error(403) in a row.
C10_Witness ==
  /\ last_call.op = "on_error"
  /\ last_call.code = 403
  /\ ~other_errors
  /\ error_count = 5
  /\ last_call.slept = 120

\* C11: wait_for_download computes its delay as a value in
\* [download_delay_min, download_delay_max] with no backoff whatever
\* error_count is, sleeps by last_download_time alone, sets last_download_time
\* to the current time and leaves last_request_time (which only ages by the
\* time slept) and error_count as they are; wait_for_request likewise leaves
\* last_download_time (which only ages by the time slept) and error_count.
C11_ChannelsIndependent ==
  [][/\ (last_call'.op = "wait_for_download" =>
          LET elapsed == Now - last_download_time
              delay == last_call'.delay
              slept == last_call'.slept
          IN /\ delay \in download_delay_min..download_delay_max
             /\ last_call'.backoff = 0
             /\ slept = (IF elapsed < delay THEN delay - elapsed ELSE 0)
             /\ last_download_time' = Now
             /\ last_request_time' = Elapse(last_request_time, slept, RequestHorizon)
             /\ error_count' = error_count)
     /\ (last_call'.op = "wait_for_request" =>
          /\ last_download_time' =
               Elapse(last_download_time, last_call'.slept, DownloadHorizon)
          /\ error_count' = error_count)]_vars

\* C11's case: wait_for_download called with errors pending and a request
\* made shortly before; it has slept, and no longer than download_delay_max.
C11_Witness ==
  /\ last_call.op = "wait_for_download"
  /\ error_count >= 6
  /\ last_call.slept > 0
  /\ last_call.slept <= download_delay_max
  /\ last_request_time > 0
  /\ last_request_time < Now

\* C30: an on_error(403) called when k errors of any kind have been counted
\* since the last on_success (error_count = k before the call) sleeps 30 s
\* for k = 0, 60 s for k = 1 and 120 s for k >= 2, whatever the codes of
\* those k errors were, and counts one more error.
C30_LadderIndexedByErrorCount ==
  [][(last_call'.op = "on_error" /\ last_call'.code = 403) =>
       /\ last_call'.slept = (IF error_count = 0 THEN 30
                              ELSE IF error_count = 1 THEN 60 ELSE 120)
       /\ error_count' = error_count + 1]_vars

\* C30's case: a 403 as the third error since the last success, errors
\* without 403 among the three: it has slept 120 s.
C30_Witness ==
  /\ last_call.op = "on_error"
  /\ last_call.code = 403
  /\ other_errors
  /\ error_count = 3
  /\ last_call.slept = 120

----------------------------------------------------------------------------
(* Claims about work items attempted once, under SpecVideoFile *)

\* How many times step x is in the log of the download_video call.
Occurrences(steps, x) == Cardinality({i \in DOMAIN steps : steps[i] = x})

====
